---- MODULE Spec2Model ----
(***************************************************************************)
(* Identity & access validation service.                                   *)
(*   - api.check_access / manage_access.check_access: the access check     *)
(*     over the directory store, one process per call in flight;           *)
(*   - idp_sync.run_sync: the provider sync that fills the store.          *)
(* Strings are sequences of character codes, so that lower(), "in",        *)
(* split(), formatting and list.sort() are computed as Python computes     *)
(* them.                                                                   *)
(***************************************************************************)
EXTENDS Integers, Sequences, FiniteSets, TLC

VARIABLES
    db,     \* the directory store: rows of the tables and junction tables
    call,   \* the access checks in flight, with their local variables
    sync,   \* the sync run: its position and the Auth0SyncService fields
    idp,    \* the identity provider: the user records it serves
    hist    \* history of the current sync run, kept for the properties

vars == <<db, call, sync, idp, hist>>

(***************************************************************************)
(* Bounds of the model.                                                    *)
(***************************************************************************)
\* number of access checks that can be in flight at once
NCalls == 2
\* number of sync runs executed one after the other
MaxRuns == 2

(***************************************************************************)
(* String literals of the program and of the sample data.                  *)
(***************************************************************************)
s_alice == <<97, 108, 105, 99, 101>>  \* "alice"
s_carol == <<99, 97, 114, 111, 108>>  \* "carol"
s_zed == <<122, 101, 100>>  \* "zed"
s_Google == <<71, 111, 111, 103, 108, 101>>  \* "Google"
s_Slack == <<83, 108, 97, 99, 107>>  \* "Slack"
s_Zoom == <<90, 111, 111, 109>>  \* "Zoom"
s_Admins == <<65, 100, 109, 105, 110, 115>>  \* "Admins"
s_Editors == <<69, 100, 105, 116, 111, 114, 115>>  \* "Editors"
s_Viewers == <<86, 105, 101, 119, 101, 114, 115>>  \* "Viewers"
s_Docs == <<68, 111, 99, 115>>  \* "Docs"
s_Sheets == <<83, 104, 101, 101, 116, 115>>  \* "Sheets"
s_Slides == <<83, 108, 105, 100, 101, 115>>  \* "Slides"
s_Read == <<82, 101, 97, 100>>  \* "Read"
s_Write == <<87, 114, 105, 116, 101>>  \* "Write"
s_View == <<86, 105, 101, 119>>  \* "View"
s_alice_mail == <<97, 108, 105, 99, 101, 64, 120, 46, 105, 111>>  \* "alice@x.io"
s_carol_mail == <<99, 97, 114, 111, 108, 64, 120, 46, 105, 111>>  \* "carol@x.io"
s_idp1 == <<97, 48, 124, 49>>  \* "a0|1"
s_idp2 == <<97, 48, 124, 50>>  \* "a0|2"
s_bob == <<98, 111, 98>>  \* "bob"
s_admin == <<97, 100, 109, 105, 110>>  \* "admin"
s_editor == <<101, 100, 105, 116, 111, 114>>  \* "editor"
s_al == <<97, 108>>  \* "al"
s_al_mail == <<97, 108, 64, 120, 46, 105, 111>>  \* "al@x.io"
s_bob_mail == <<98, 111, 98, 64, 120, 46, 105, 111>>  \* "bob@x.io"
s_idp3 == <<97, 48, 124, 51>>  \* "a0|3"
s_None == <<78, 111, 110, 101>>  \* "None"
s_at_example == <<64, 101, 120, 97, 109, 112, 108, 101, 46, 99, 111, 109>>  \* "@example.com"
s_group_ == <<103, 114, 111, 117, 112, 95>>  \* "group_"
s_SysAdmin == <<83, 121, 115, 65, 100, 109, 105, 110>>  \* "SysAdmin"
s_Guests == <<71, 117, 101, 115, 116, 115>>  \* "Guests"
s_g1 == <<103, 49>>  \* "g1"
s_g2 == <<103, 50>>  \* "g2"
s_Administrator_users == <<65, 100, 109, 105, 110, 105, 115, 116, 114, 97, 116, 111, 114, 32, 117, 115, 101, 114, 115>>  \* "Administrator users"
s_Editor_users == <<69, 100, 105, 116, 111, 114, 32, 117, 115, 101, 114, 115>>  \* "Editor users"
s_Viewer_users == <<86, 105, 101, 119, 101, 114, 32, 117, 115, 101, 114, 115>>  \* "Viewer users"
s_Google_Workspace == <<71, 111, 111, 103, 108, 101, 32, 87, 111, 114, 107, 115, 112, 97, 99, 101>>  \* "Google Workspace"
s_Slack_Workspace == <<83, 108, 97, 99, 107, 32, 87, 111, 114, 107, 115, 112, 97, 99, 101>>  \* "Slack Workspace"
s_colon == <<58>>  \* ":"
s_colon_space == <<58, 32>>  \* ": "

(***************************************************************************)
(* Python string operations.                                               *)
(***************************************************************************)
\* str.lower() on ASCII text
Lower(s) == [i \in 1..Len(s) |-> IF s[i] \in 65..90 THEN s[i] + 32 ELSE s[i]]

\* sub in s
Contains(sub, s) ==
    \E i \in 0..(Len(s) - Len(sub)) : SubSeq(s, i + 1, i + Len(sub)) = sub

\* s.split(sep)[0] for a one-character separator
SplitFirst(s, sep) ==
    IF \E i \in 1..Len(s) : s[i] = sep
    THEN LET k == CHOOSE i \in 1..Len(s) :
                     s[i] = sep /\ \A j \in 1..(i - 1) : s[j] # sep
         IN SubSeq(s, 1, k - 1)
    ELSE s

\* a < b for str: code point by code point, a proper prefix is smaller
RECURSIVE StrLess(_, _)
StrLess(a, b) ==
    IF b = <<>> THEN FALSE
    ELSE IF a = <<>> THEN TRUE
    ELSE IF Head(a) # Head(b) THEN Head(a) < Head(b)
    ELSE StrLess(Tail(a), Tail(b))

\* one insertion step of the sort: x goes after the elements not greater than it
RECURSIVE InsertSorted(_, _)
InsertSorted(x, s) ==
    IF s = <<>> THEN <<x>>
    ELSE IF StrLess(x, Head(s)) THEN <<x>> \o s
    ELSE <<Head(s)>> \o InsertSorted(x, Tail(s))

RECURSIVE SortFrom(_, _)
SortFrom(done, rest) ==
    IF rest = <<>> THEN done
    ELSE SortFrom(InsertSorted(Head(rest), done), Tail(rest))

\* the list left in place by list.sort()
NoSort(l) == l

SortStrings(l) == SortFrom(<<>>, l)

\* the orders in which a relationship collection or a set can be iterated
Orders(S) ==
    {o \in [1..Cardinality(S) -> S] : \A x \in S : \E i \in DOMAIN o : o[i] = x}

(***************************************************************************)
(* The directory store (models.py): five tables and five junction tables.  *)
(***************************************************************************)
User(id, username, email, idp_id) ==
    [id |-> id, username |-> username, email |-> email, idp_id |-> idp_id]

Group(id, name, idp_id) == [id |-> id, name |-> name, idp_id |-> idp_id]

Role(id, name, description) == [id |-> id, name |-> name, description |-> description]

Permission(id, name, resource, action) ==
    [id |-> id, name |-> name, resource |-> resource, action |-> action]

Application(id, name, description) ==
    [id |-> id, name |-> name, description |-> description]

\* query(T).filter_by(column=value).first(): None is modelled by 0
First(rows, column, value) ==
    IF \E r \in rows : r[column] = value
    THEN (CHOOSE r \in rows : r[column] = value).id
    ELSE 0

Row(rows, id) == CHOOSE r \in rows : r.id = id

\* the relationship collections of models.py, read through the junction tables
user_groups(d, u) == {j[2] : j \in {k \in d.user_groups : k[1] = u}}
user_roles(d, u) == {j[2] : j \in {k \in d.user_roles : k[1] = u}}
user_permissions(d, u) == {j[2] : j \in {k \in d.user_permissions : k[1] = u}}
group_permissions(d, g) == {j[2] : j \in {k \in d.group_permissions : k[1] = g}}
group_applications(d, g) == {j[2] : j \in {k \in d.group_applications : k[1] = g}}

(***************************************************************************)
(* Store contents the access checks are run against: two users, two        *)
(* groups, a role, two applications and four permissions, two of which     *)
(* ("Docs:Read" and "Docs:View") have the same resource and action.        *)
(***************************************************************************)
SampleUsers ==
    {User(1, s_alice, s_alice_mail, s_idp1), User(2, s_carol, s_carol_mail, s_idp2)}

SampleGroups ==
    {Group(1, s_Admins, s_group_ \o Lower(s_Admins)),
     Group(2, s_Viewers, s_group_ \o Lower(s_Viewers))}

SampleRoles == {Role(1, s_Admins, s_Administrator_users)}

SampleApplications ==
    {Application(1, s_Google, s_Google_Workspace),
     Application(2, s_Slack, s_Slack_Workspace)}

SamplePermissions ==
    {Permission(1, s_Docs \o s_colon \o s_Read, s_Docs, s_Read),
     Permission(2, s_Docs \o s_colon \o s_Write, s_Docs, s_Write),
     Permission(3, s_Docs \o s_colon \o s_View, s_Docs, s_Read),
     Permission(4, s_Sheets \o s_colon \o s_Read, s_Sheets, s_Read)}

\* every store of the family satisfies the schema: unique columns are unique
\* and every junction row references existing rows
Stores ==
    {[users |-> SampleUsers, groups |-> SampleGroups, roles |-> SampleRoles,
      applications |-> SampleApplications, permissions |-> SamplePermissions,
      user_groups |-> ug, user_roles |-> ur,
      user_permissions |-> up \cup {<<2, 4>>},
      group_permissions |-> {<<1, 1>>, <<1, 2>>, <<2, 2>>, <<2, 3>>},
      group_applications |-> ga \cup {<<2, 2>>}] :
        ug \in SUBSET {<<1, 1>>, <<1, 2>>},
        ur \in SUBSET {<<1, 1>>},
        up \in SUBSET {<<1, 3>>},
        ga \in SUBSET {<<1, 1>>, <<2, 1>>}}

(***************************************************************************)
(* An access check in flight: api.check_access behind GET /access/..., or  *)
(* manage_access.check_access behind the command line.                     *)
(***************************************************************************)
Calls == 1..NCalls

Surfaces == {"http", "cli"}

Usernames == {s_alice, s_zed}

ApplicationNames == {s_Google, s_Zoom}

Outcome(kind, what, access, permissions) ==
    [kind |-> kind, what |-> what, access |-> access, permissions |-> permissions]

NoOutcome == Outcome("none", "", FALSE, <<>>)

\* A Python collection of Permission objects, as the number of times each
\* object is held: a set holds an object once however often it is added.
EmptySet == [p \in {} |-> 0]

\* list.append(p): one more entry per call
ListAppend(coll, p) ==
    IF p \in DOMAIN coll THEN [coll EXCEPT ![p] = @ + 1] ELSE coll @@ (p :> 1)

\* set.add(p)
SetAdd(coll, p) == IF p \in DOMAIN coll THEN coll ELSE coll @@ (p :> 1)

\* for permission in permissions: all_permissions.add(permission)
RECURSIVE AddAll(_, _)
AddAll(coll, permissions) ==
    IF permissions = {} THEN coll
    ELSE LET p == CHOOSE x \in permissions : TRUE
         IN AddAll(SetAdd(coll, p), permissions \ {p})

Size(coll) == LET RECURSIVE Sum(_)
                  Sum(S) == IF S = {} THEN 0
                            ELSE LET p == CHOOSE x \in S : TRUE
                                 IN coll[p] + Sum(S \ {p})
              IN Sum(DOMAIN coll)

\* the orders in which the entries of a collection can be iterated
IterOrders(coll) ==
    {o \in [1..Size(coll) -> DOMAIN coll] :
        \A p \in DOMAIN coll : Cardinality({i \in DOMAIN o : o[i] = p}) = coll[p]}

IdleCall ==
    [pc |-> "idle", surface |-> "http", username |-> <<>>, application |-> <<>>,
     user |-> 0, app |-> 0, group_iter |-> <<>>, has_access |-> FALSE,
     all_permissions |-> EmptySet, outcome |-> NoOutcome]

\* f"{p.resource}: {p.action}" (api.py) and f"{p.resource}:{p.action}" (CLI)
FormatApi(p) == p.resource \o s_colon_space \o p.action

FormatCli(p) == p.resource \o s_colon \o p.action

Format(surface, p) == IF surface = "http" THEN FormatApi(p) ELSE FormatCli(p)

\* get_db / init_db + get_session: a session is opened for the call
Request(c, surface, username, application) ==
    /\ call[c].pc = "idle"
    /\ call' = [call EXCEPT ![c] = [IdleCall EXCEPT !.pc = "find_user",
                                        !.surface = surface,
                                        !.username = username,
                                        !.application = application]]
    /\ UNCHANGED <<db, sync, idp, hist>>

\* a failed lookup answered as "no access" instead
NotFoundAsNoAccess(surface, what) ==
    Outcome(IF surface = "http" THEN "http_200" ELSE "cli_no_access", "", FALSE, <<>>)

\* the outcome of a failed lookup: HTTPException(404) or the printed error
NotFound(surface, what) ==
    Outcome(IF surface = "http" THEN "http_404" ELSE "cli_error", what, FALSE, <<>>)

\* a lookup that inserts the user it does not find (get-or-create)
FindOrCreateUser(c) ==
    /\ call[c].pc = "find_user"
    /\ LET user == First(db.users, "username", call[c].username)
       IN IF user = 0
          THEN /\ db' = [db EXCEPT !.users = @ \cup
                            {User(Cardinality(@) + 1, call[c].username,
                                  call[c].username, call[c].username)}]
               /\ call' = [call EXCEPT ![c] =
                             [@ EXCEPT !.pc = "find_app",
                                       !.user = Cardinality(db.users) + 1]]
          ELSE /\ db' = db
               /\ call' = [call EXCEPT ![c] = [@ EXCEPT !.pc = "find_app",
                                                        !.user = user]]
    /\ UNCHANGED <<sync, idp, hist>>

FindUser(c) ==
    /\ call[c].pc = "find_user"
    /\ LET user == First(db.users, "username", call[c].username)
       IN call' = [call EXCEPT ![c] =
                     IF user = 0
                     THEN [@ EXCEPT !.pc = "done",
                                    !.outcome = NotFound(call[c].surface, "user")]
                     ELSE [@ EXCEPT !.pc = "find_app", !.user = user]]
    /\ UNCHANGED <<db, sync, idp, hist>>

FindApplication(c) ==
    /\ call[c].pc = "find_app"
    /\ LET app == First(db.applications, "name", call[c].application)
       IN call' = [call EXCEPT ![c] =
                     IF app = 0
                     THEN [@ EXCEPT !.pc = "done",
                                    !.outcome = NotFound(call[c].surface, "application")]
                     ELSE [@ EXCEPT !.pc = "load_groups", !.app = app]]
    /\ UNCHANGED <<db, sync, idp, hist>>

\* has_access and all_permissions kept in module-level variables, which
\* every call in flight shares and each new call resets
LoadGroupsShared(c) ==
    /\ call[c].pc = "load_groups"
    /\ \E order \in Orders(user_groups(db, call[c].user)) :
         call' = [d \in Calls |->
                    IF d = c
                    THEN [call[d] EXCEPT !.pc = "groups", !.has_access = FALSE,
                                         !.all_permissions = EmptySet,
                                         !.group_iter = order]
                    ELSE [call[d] EXCEPT !.has_access = FALSE,
                                         !.all_permissions = EmptySet]]
    /\ UNCHANGED <<db, sync, idp, hist>>

\* has_access = False; all_permissions = set(); user.groups is loaded
LoadGroups(c) ==
    /\ call[c].pc = "load_groups"
    /\ \E order \in Orders(user_groups(db, call[c].user)) :
         call' = [call EXCEPT ![c] = [@ EXCEPT !.pc = "groups",
                                               !.has_access = FALSE,
                                               !.all_permissions = EmptySet,
                                               !.group_iter = order]]
    /\ UNCHANGED <<db, sync, idp, hist>>

\* a loop body that collects the group's permissions before the test
GroupPassCollectAlways(d, local, group) ==
    [local EXCEPT !.has_access = @ \/ local.app \in group_applications(d, group),
                  !.all_permissions = AddAll(@, group_permissions(d, group)),
                  !.group_iter = Tail(@)]

\* a loop body that does not look at the group's applications
GroupPassUnchecked(d, local, group) ==
    [local EXCEPT !.has_access = TRUE,
                  !.all_permissions = AddAll(@, group_permissions(d, group)),
                  !.group_iter = Tail(@)]

\* the state of the locals after one pass of the loop body over `group`
GroupPass(d, local, group) ==
    IF local.app \in group_applications(d, group)
    THEN [local EXCEPT !.has_access = TRUE,
                       !.all_permissions = AddAll(@, group_permissions(d, group)),
                       !.group_iter = Tail(@)]
    ELSE [local EXCEPT !.group_iter = Tail(@)]

VisitGroup(c) ==
    /\ call[c].pc = "groups"
    /\ call[c].group_iter # <<>>
    /\ call' = [call EXCEPT ![c] = GroupPass(db, @, Head(@.group_iter))]
    /\ UNCHANGED <<db, sync, idp, hist>>

\* a loop over user.permissions that runs only when access was granted
DirectGrantsIfAccess(d, local) ==
    IF local.has_access THEN user_permissions(d, local.user) ELSE {}

\* the permissions added by the loop over user.permissions
DirectGrants(d, local) == user_permissions(d, local.user)

DirectPermissions(c) ==
    /\ call[c].pc = "groups"
    /\ call[c].group_iter = <<>>
    /\ call' = [call EXCEPT ![c] =
                  [@ EXCEPT !.pc = "respond",
                            !.all_permissions = AddAll(@, DirectGrants(db, call[c]))]]
    /\ UNCHANGED <<db, sync, idp, hist>>

\* a list without its repeated elements, first occurrences kept
RECURSIVE Distinct(_)
Distinct(l) ==
    IF l = <<>> THEN <<>>
    ELSE LET front == Distinct(SubSeq(l, 1, Len(l) - 1))
         IN IF \E i \in DOMAIN front : front[i] = l[Len(l)]
            THEN front
            ELSE Append(front, l[Len(l)])

\* the strings collected into a set of strings: one entry per string
FormattedDistinct(d, surface, order) ==
    Distinct([i \in DOMAIN order |-> Format(surface, Row(d.permissions, order[i]))])

\* the list comprehension over the set, in the order the set is iterated
Formatted(d, surface, order) ==
    [i \in DOMAIN order |-> Format(surface, Row(d.permissions, order[i]))]

\* AccessResponse(...) of api.py, or the line printed by the CLI
Render(local, permission_strings) ==
    IF local.surface = "http"
    THEN Outcome("http_200", "", local.has_access, permission_strings)
    ELSE IF local.has_access
         THEN Outcome("cli_access", "", TRUE, permission_strings)
         ELSE Outcome("cli_no_access", "", FALSE, <<>>)

Respond(c) ==
    /\ call[c].pc = "respond"
    /\ \E order \in IterOrders(call[c].all_permissions) :
         call' = [call EXCEPT ![c] =
                    [@ EXCEPT !.pc = "done",
                              !.outcome = Render(call[c],
                                  SortStrings(Formatted(db, call[c].surface, order)))]]
    /\ UNCHANGED <<db, sync, idp, hist>>

\* session.close() in the finally clause; the call is over
Close(c) ==
    /\ call[c].pc = "done"
    /\ call' = [call EXCEPT ![c] = IdleCall]
    /\ UNCHANGED <<db, sync, idp, hist>>

\* no sync has run: Auth0SyncService does not exist yet
IdleSync == [pc |-> "idle", run |-> 0, access_token |-> FALSE, auth0_users |-> <<>>]

\* log: the steps of the current run with their success; at_failure: the
\* store as committed when a step of the current run first failed;
\* after_success: the store at the end of the first run in which every step
\* succeeded; successes: the number of such runs so far
NoHistory == [log |-> <<>>, at_failure |-> {}, after_success |-> {}, successes |-> 0]

Init ==
    /\ db \in Stores
    /\ call = [c \in Calls |-> IdleCall]
    /\ sync = IdleSync
    /\ idp = [users |-> <<>>]
    /\ hist = NoHistory

Next ==
    \E c \in Calls :
        \/ \E surface \in Surfaces, username \in Usernames,
              application \in ApplicationNames :
                Request(c, surface, username, application)
        \/ FindUser(c)
        \/ FindApplication(c)
        \/ LoadGroups(c)
        \/ VisitGroup(c)
        \/ DirectPermissions(c)
        \/ Respond(c)
        \/ Close(c)

Spec == Init /\ [][Next]_vars

(***************************************************************************)
(* What the claims speak of, read off the store.                           *)
(***************************************************************************)
UserNamed(d, username) == First(d.users, "username", username)

ApplicationNamed(d, name) == First(d.applications, "name", name)

\* the groups of user u that are authorized for application a
AuthorizedGroups(d, u, a) == {g \in user_groups(d, u) : a \in group_applications(d, g)}

\* the permissions reached: through an authorized group, or granted directly
Reached(d, u, a) ==
    UNION {group_permissions(d, g) : g \in AuthorizedGroups(d, u, a)}
        \cup user_permissions(d, u)

\* the number of ways permission p is reached
Paths(d, u, a, p) ==
    Cardinality({g \in AuthorizedGroups(d, u, a) : p \in group_permissions(d, g)})
        + (IF p \in user_permissions(d, u) THEN 1 ELSE 0)

Occurrences(l, x) == Cardinality({i \in DOMAIN l : l[i] = x})

SameFormat(d, P, p) ==
    {q \in P : FormatApi(Row(d.permissions, q)) = FormatApi(Row(d.permissions, p))}

WithoutRolesAndDirectGrants(d) ==
    [d EXCEPT !.user_roles = {}, !.user_permissions = {}]

\* a finished HTTP access check for an existing user and application
Answered(c) ==
    /\ call[c].pc = "done"
    /\ call[c].surface = "http"
    /\ UserNamed(db, call[c].username) # 0
    /\ ApplicationNamed(db, call[c].application) # 0

U(c) == UserNamed(db, call[c].username)

A(c) == ApplicationNamed(db, call[c].application)

\* C1: an access check for an existing user and application answers
\* access = true exactly when the user is in a group authorized for the
\* application; the user's roles and direct permissions play no part.
C1_AccessIffAuthorizedGroup ==
    \A c \in Calls :
        Answered(c) =>
            /\ call[c].outcome.kind = "http_200"
            /\ call[c].outcome.access =
                   (AuthorizedGroups(WithoutRolesAndDirectGrants(db), U(c), A(c)) # {})

C1_Witness ==
    \E c \in Calls :
        /\ Answered(c)
        /\ call[c].outcome.access = FALSE
        /\ user_groups(db, U(c)) # {}
        /\ user_roles(db, U(c)) # {}
        /\ user_permissions(db, U(c)) # {}

\* C2: the permissions answered are exactly the formatted strings of the
\* permissions of the user's authorized groups and of the user's direct
\* permissions, one string per permission; without an authorized group and
\* without direct permissions the answer is access = false, permissions = [].
C2_PermissionsAreReached ==
    \A c \in Calls :
        Answered(c) =>
            LET R == Reached(db, U(c), A(c))
                l == call[c].outcome.permissions
            IN /\ Len(l) = Cardinality(R)
               /\ \A i \in DOMAIN l :
                    \E p \in R : l[i] = FormatApi(Row(db.permissions, p))
               /\ \A p \in R :
                    Occurrences(l, FormatApi(Row(db.permissions, p)))
                        = Cardinality(SameFormat(db, R, p))
               /\ (AuthorizedGroups(db, U(c), A(c)) = {} /\ user_permissions(db, U(c)) = {})
                    => call[c].outcome = Outcome("http_200", "", FALSE, <<>>)

C2_Witness ==
    \E c \in Calls :
        /\ Answered(c)
        /\ call[c].outcome.permissions # <<>>
        /\ \E g \in user_groups(db, U(c)) \ AuthorizedGroups(db, U(c), A(c)) :
             \E p \in group_permissions(db, g) : p \notin Reached(db, U(c), A(c))

\* C3: for a user in no group authorized for the application the answer is
\* access = false and still holds the string of every direct permission.
C3_DirectPermissionsWithoutAccess ==
    \A c \in Calls :
        (Answered(c) /\ AuthorizedGroups(db, U(c), A(c)) = {}) =>
            /\ call[c].outcome.access = FALSE
            /\ \A p \in user_permissions(db, U(c)) :
                 Occurrences(call[c].outcome.permissions,
                             FormatApi(Row(db.permissions, p))) >= 1

C3_Witness ==
    \E c \in Calls :
        /\ Answered(c)
        /\ AuthorizedGroups(db, U(c), A(c)) = {}
        /\ user_permissions(db, U(c)) # {}
        /\ call[c].outcome.permissions # <<>>

\* C4: an unknown username ends in not-found(user) whatever the application
\* is, a known username with an unknown application in
\* not-found(application): HTTP 404 or the CLI's error line, never an answer.
C4_NotFound ==
    \A c \in Calls :
        call[c].pc = "done" =>
            LET kind == IF call[c].surface = "http" THEN "http_404" ELSE "cli_error"
            IN /\ UserNamed(db, call[c].username) = 0 =>
                    call[c].outcome = Outcome(kind, "user", FALSE, <<>>)
               /\ (UserNamed(db, call[c].username) # 0
                     /\ ApplicationNamed(db, call[c].application) = 0) =>
                    call[c].outcome = Outcome(kind, "application", FALSE, <<>>)

C4_Witness ==
    \E c, e \in Calls :
        /\ call[c].pc = "done" /\ call[c].surface = "http"
        /\ call[c].username = s_zed /\ call[c].application = s_Zoom
        /\ call[c].outcome.kind = "http_404"
        /\ call[e].pc = "done" /\ call[e].surface = "cli"
        /\ call[e].username = s_alice /\ call[e].application = s_Zoom
        /\ call[e].outcome.kind = "cli_error"

C6_Sorted ==
    \A c \in Calls :
        call[c].pc = "done" =>
            LET l == call[c].outcome.permissions
            IN \A i \in 1..(Len(l) - 1) : ~StrLess(l[i + 1], l[i])

C6_Witness ==
    \E c \in Calls :
        /\ call[c].pc = "done"
        /\ Len(call[c].outcome.permissions) >= 3
        /\ \E i \in 1..(Len(call[c].outcome.permissions) - 1) :
             StrLess(call[c].outcome.permissions[i], call[c].outcome.permissions[i + 1])

\* C7: no step of an access check, successful or ending in not-found,
\* changes the store.
C7_StoreUnchanged ==
    [][(\E c \in Calls : call'[c] # call[c]) => db' = db]_vars

C7_Witness ==
    \E c, e \in Calls :
        /\ call[c].pc = "done" /\ call[c].outcome.kind = "http_404"
        /\ call[e].pc = "done" /\ call[e].outcome.kind = "http_200"
        /\ db \in Stores

\* the locals after the loop over the groups in the given order
RECURSIVE AfterGroups(_, _)
AfterGroups(d, local) ==
    IF local.group_iter = <<>> THEN local
    ELSE AfterGroups(d, GroupPass(d, local, Head(local.group_iter)))

\* the outcomes of the check executed alone, from start to end, on store d
AloneOutcomes(d, surface, username, application) ==
    LET user == UserNamed(d, username)
        app == ApplicationNamed(d, application)
    IN IF user = 0 THEN {NotFound(surface, "user")}
       ELSE IF app = 0 THEN {NotFound(surface, "application")}
       ELSE UNION {
              LET start == [IdleCall EXCEPT !.surface = surface, !.user = user,
                                            !.app = app, !.group_iter = order]
                  looped == AfterGroups(d, start)
                  final == [looped EXCEPT
                              !.all_permissions = AddAll(@, DirectGrants(d, looped))]
              IN {Render(final, SortStrings(Formatted(d, surface, o))) :
                     o \in IterOrders(final.all_permissions)} :
              order \in Orders(user_groups(d, user))}

\* C8: whatever the interleaving of the calls in flight, each call ends with
\* the one outcome it has when executed alone on the store.
C8_SameAsAlone ==
    \A c \in Calls :
        call[c].pc = "done" =>
            AloneOutcomes(db, call[c].surface, call[c].username, call[c].application)
                = {call[c].outcome}

C8_Witness ==
    \E c, e \in Calls :
        /\ call[c].pc = "done"
        /\ call[c].outcome.kind = "http_200"
        /\ call[c].outcome.access
        /\ call[e].pc = "groups"
        /\ call[e].group_iter # <<>>
        /\ ~call[e].has_access

(***************************************************************************)
(* The provider sync (idp_sync.py).  A store step computes its changes in  *)
(* the session and commits them at its end; a step that raises leaves the  *)
(* store as committed, because run_sync closes the session without commit. *)
(* The result of a store step is [ok, d]: whether it ran to its commit,    *)
(* and the store the commit writes.                                        *)
(***************************************************************************)
\* a key absent from a provider record, and Python's None
Missing == <<0>>

\* dict.get(key, default)
Get(value, default) == IF value = Missing THEN default ELSE value

\* str(value) inside an f-string
Str(value) == IF value = Missing THEN s_None ELSE value

\* the next value of a table's primary key
NextId(rows) ==
    IF rows = {} THEN 1
    ELSE (CHOOSE m \in {r.id : r \in rows} : \A r \in rows : r.id <= m) + 1

\* session.add(row) followed by the flush: the INSERT fails on a NULL in a
\* nullable=False column or on a value already present in a unique column
Insert(state, table, row, unique) ==
    IF \/ \E col \in unique : row[col] = Missing
       \/ \E r \in state.d[table] : \E col \in unique : r[col] = row[col]
    THEN [state EXCEPT !.ok = FALSE]
    ELSE [state EXCEPT !.d[table] = @ \cup {row}]

\* the body of the loop of sync_users for one provider record, with a
\* stored user brought up to date with the provider's record
UpsertUserUpdating(state, auth0_user) ==
    IF ~state.ok THEN state
    ELSE LET user_id == auth0_user.user_id
             email == Get(auth0_user.email, Str(user_id) \o s_at_example)
             name == Get(auth0_user.name, SplitFirst(email, 64))
             db_user == IF user_id = Missing THEN 0
                        ELSE First(state.d.users, "idp_id", user_id)
         IN IF db_user = 0
            THEN Insert(state, "users",
                        User(NextId(state.d.users), name, email, user_id),
                        {"username", "email", "idp_id"})
            ELSE [state EXCEPT !.d.users =
                     (@ \ {Row(@, db_user)}) \cup {User(db_user, name, email, user_id)}]

\* the body of the loop of sync_users for one provider record
UpsertUser(state, auth0_user) ==
    IF ~state.ok THEN state
    ELSE LET user_id == auth0_user.user_id
             email == Get(auth0_user.email, Str(user_id) \o s_at_example)
             name == Get(auth0_user.name, SplitFirst(email, 64))
             db_user == IF user_id = Missing THEN 0
                        ELSE First(state.d.users, "idp_id", user_id)
         IN IF db_user = 0
            THEN Insert(state, "users",
                        User(NextId(state.d.users), name, email, user_id),
                        {"username", "email", "idp_id"})
            ELSE state

RECURSIVE sync_users(_, _)
sync_users(state, auth0_users) ==
    IF auth0_users = <<>> THEN state
    ELSE sync_users(UpsertUser(state, Head(auth0_users)), Tail(auth0_users))

groups_data ==
    <<<<s_Admins, s_Administrator_users>>,
      <<s_Editors, s_Editor_users>>,
      <<s_Viewers, s_Viewer_users>>>>

\* one pass of the loop of create_sample_groups: the group, then its role
CreateGroupAndRole(state, entry) ==
    LET with_group ==
            IF ~state.ok \/ First(state.d.groups, "name", entry[1]) # 0 THEN state
            ELSE Insert(state, "groups",
                        Group(NextId(state.d.groups), entry[1],
                              s_group_ \o Lower(entry[1])),
                        {"name", "idp_id"})
    IN IF ~with_group.ok \/ First(with_group.d.roles, "name", entry[1]) # 0
       THEN with_group
       ELSE Insert(with_group, "roles",
                   Role(NextId(with_group.d.roles), entry[1], entry[2]), {"name"})

RECURSIVE create_sample_groups(_, _)
create_sample_groups(state, data) ==
    IF data = <<>> THEN state
    ELSE create_sample_groups(CreateGroupAndRole(state, Head(data)), Tail(data))

\* the name of the group and role chosen for a username
AssignedName(username) ==
    LET username_lower == Lower(username)
    IN IF Contains(s_alice, username_lower) \/ Contains(s_admin, username_lower)
       THEN s_Admins
       ELSE IF Contains(s_bob, username_lower) \/ Contains(s_editor, username_lower)
            THEN s_Editors
            ELSE s_Viewers

assign_users_to_groups(state) ==
    LET d == state.d
    IN [state EXCEPT
          !.d.user_groups = @ \cup
              {<<u.id, First(d.groups, "name", AssignedName(u.username))>> :
                  u \in {v \in d.users :
                           First(d.groups, "name", AssignedName(v.username)) # 0}},
          !.d.user_roles = @ \cup
              {<<u.id, First(d.roles, "name", AssignedName(u.username))>> :
                  u \in {v \in d.users :
                           First(d.roles, "name", AssignedName(v.username)) # 0}}]

apps_data == <<<<s_Google, s_Google_Workspace>>, <<s_Slack, s_Slack_Workspace>>>>

RECURSIVE create_sample_applications(_, _)
create_sample_applications(state, data) ==
    IF data = <<>> THEN state
    ELSE create_sample_applications(
             IF ~state.ok \/ First(state.d.applications, "name", Head(data)[1]) # 0
             THEN state
             ELSE Insert(state, "applications",
                         Application(NextId(state.d.applications),
                                     Head(data)[1], Head(data)[2]),
                         {"name"}),
             Tail(data))

\* `admins` is bound only inside `if google_app:`; reading it unbound raises
assign_groups_to_apps(state) ==
    LET d == state.d
        google_app == First(d.applications, "name", s_Google)
        slack_app == First(d.applications, "name", s_Slack)
        admins == First(d.groups, "name", s_Admins)
        editors == First(d.groups, "name", s_Editors)
        google == IF google_app = 0 THEN {}
                  ELSE {<<g, google_app>> : g \in {admins, editors} \ {0}}
    IN IF slack_app # 0 /\ google_app = 0
       THEN [state EXCEPT !.ok = FALSE]
       ELSE [state EXCEPT !.d.group_applications =
               @ \cup google
                 \cup (IF slack_app # 0 /\ admins # 0
                       THEN {<<admins, slack_app>>} ELSE {})]

sample_permissions ==
    <<<<s_Docs \o s_colon \o s_Read, s_Docs, s_Read>>,
      <<s_Docs \o s_colon \o s_Write, s_Docs, s_Write>>,
      <<s_Sheets \o s_colon \o s_Read, s_Sheets, s_Read>>,
      <<s_Sheets \o s_colon \o s_Write, s_Sheets, s_Write>>,
      <<s_Slides \o s_colon \o s_Read, s_Slides, s_Read>>,
      <<s_Slides \o s_colon \o s_Write, s_Slides, s_Write>>>>

RECURSIVE create_sample_permissions(_, _)
create_sample_permissions(state, data) ==
    IF data = <<>> THEN state
    ELSE create_sample_permissions(
             IF ~state.ok \/ First(state.d.permissions, "name", Head(data)[1]) # 0
             THEN state
             ELSE Insert(state, "permissions",
                         Permission(NextId(state.d.permissions),
                                    Head(data)[1], Head(data)[2], Head(data)[3]),
                         {"name"}),
             Tail(data))

\* the permissions assign_permissions_to_groups gives a group of that name
PermissionsFor(d, name) ==
    IF Contains(s_admin, Lower(name)) THEN {p.id : p \in d.permissions}
    ELSE IF Contains(s_editor, Lower(name))
         THEN {p.id : p \in {q \in d.permissions : Contains(s_Write, q.name)}}
         ELSE {p.id : p \in {q \in d.permissions : Contains(s_Read, q.name)}}

\* group.permissions.extend([...]): the collection of every group grows
assign_permissions_to_groups_adding(state) ==
    [state EXCEPT !.d.group_permissions =
        @ \cup UNION {{<<g.id, p>> : p \in PermissionsFor(state.d, g.name)} :
                         g \in state.d.groups}]

\* group.permissions = [...] replaces the collection of every group
assign_permissions_to_groups(state) ==
    [state EXCEPT !.d.group_permissions =
        UNION {{<<g.id, p>> : p \in PermissionsFor(state.d, g.name)} :
                  g \in state.d.groups}]

(***************************************************************************)
(* The stores and provider records the sync is run against.                *)
(***************************************************************************)
EmptyStore ==
    [users |-> {}, groups |-> {}, roles |-> {}, applications |-> {},
     permissions |-> {}, user_groups |-> {}, user_roles |-> {},
     user_permissions |-> {}, group_permissions |-> {}, group_applications |-> {}]

\* a store filled by administration tooling: the user of provider id "a0|1"
\* under another username and email, two groups that are not sample groups,
\* and a permission that is not a sample permission
LegacyStore ==
    [EmptyStore EXCEPT
        !.users = {User(1, s_al, s_al_mail, s_idp1)},
        !.groups = {Group(1, s_SysAdmin, s_g1), Group(2, s_Guests, s_g2)},
        !.permissions = {Permission(1, s_Docs \o s_colon \o s_View, s_Docs, s_Read)},
        !.user_groups = {<<1, 2>>},
        !.group_permissions = {<<1, 1>>, <<2, 1>>}]

SyncStores ==
    {EmptyStore, LegacyStore}
        \cup {d \in Stores : d.user_groups = {<<1, 2>>} /\ d.group_applications = {<<2, 2>>}}

ProviderUser(user_id, email, name) ==
    [user_id |-> user_id, email |-> email, name |-> name]

\* the lists of records the provider can hold: complete records, records
\* without name or email, and a record whose email is that of another user
ProviderLists ==
    {<<ProviderUser(s_idp1, s_alice_mail, s_alice),
       ProviderUser(s_idp2, s_bob_mail, Missing)>>,
     <<ProviderUser(s_idp3, Missing, Missing)>>,
     <<ProviderUser(s_idp1, s_alice_mail, s_alice),
       ProviderUser(s_idp3, s_alice_mail, s_admin)>>}

SyncInit ==
    /\ db \in SyncStores
    /\ call = [c \in Calls |-> IdleCall]
    /\ sync = IdleSync
    /\ idp \in {[users |-> l] : l \in ProviderLists}
    /\ hist = NoHistory

(***************************************************************************)
(* The steps of run_sync.                                                  *)
(***************************************************************************)
Logged(step, ok) ==
    [hist EXCEPT !.log = Append(@, [step |-> step, ok |-> ok]),
                 !.at_failure = IF ok \/ @ # {} THEN @ ELSE {db}]

\* the except clause of run_sync: the error is printed, the session closed
Halt(step) ==
    /\ sync' = [sync EXCEPT !.pc = "halted"]
    /\ hist' = Logged(step, FALSE)
    /\ db' = db

\* run_sync up to Auth0SyncService(session); without the credentials in the
\* environment it returns at once
RunSync(configured) ==
    /\ sync.pc \in {"idle", "done", "halted"}
    /\ sync.run < MaxRuns
    /\ sync' = [pc |-> IF configured THEN "get_access_token" ELSE "done",
                run |-> sync.run + 1, access_token |-> FALSE, auth0_users |-> <<>>]
    /\ hist' = [hist EXCEPT !.log = <<>>, !.at_failure = {}]
    /\ UNCHANGED <<db, call, idp>>

\* get_access_token, called by sync_users: status is the provider's answer,
\* "raised" when requests.post raises.  On an error status it returns False,
\* sync_users returns 0 and run_sync goes on with create_sample_groups.
GetAccessToken(status) ==
    /\ sync.pc = "get_access_token"
    /\ \/ /\ status = "200"
          /\ sync' = [sync EXCEPT !.pc = "get_users", !.access_token = TRUE]
          /\ hist' = Logged("get_access_token", TRUE)
          /\ db' = db
       \/ /\ status = "401"
          /\ sync' = [sync EXCEPT !.pc = "create_sample_groups"]
          /\ hist' = Logged("get_access_token", FALSE)
          /\ db' = db
       \/ /\ status = "raised"
          /\ Halt("get_access_token")
    /\ UNCHANGED <<call, idp>>

\* get_users, called by sync_users.  On an error status it returns [] and
\* sync_users goes on with its loop and its commit.
GetUsers(status) ==
    /\ sync.pc = "get_users"
    /\ \/ /\ status = "200"
          /\ sync' = [sync EXCEPT !.pc = "sync_users", !.auth0_users = idp.users]
          /\ hist' = Logged("get_users", TRUE)
          /\ db' = db
       \/ /\ status = "401"
          /\ sync' = [sync EXCEPT !.pc = "sync_users", !.auth0_users = <<>>]
          /\ hist' = Logged("get_users", FALSE)
          /\ db' = db
       \/ /\ status = "raised"
          /\ Halt("get_users")
    /\ UNCHANGED <<call, idp>>

\* a store step: it commits its result, or it raises (the result is not ok,
\* or the store fails under it) and commits nothing
StoreStep(step, next, result, store_up) ==
    /\ \/ /\ store_up /\ result.ok
          /\ db' = result.d
          /\ sync' = [sync EXCEPT !.pc = next]
          /\ hist' = Logged(step, TRUE)
       \/ /\ ~(store_up /\ result.ok)
          /\ Halt(step)
    /\ UNCHANGED <<call, idp>>

Session == [ok |-> TRUE, d |-> db]

SyncUsers(store_up) ==
    /\ sync.pc = "sync_users"
    /\ StoreStep("sync_users", "create_sample_groups",
                 sync_users(Session, sync.auth0_users), store_up)

CreateSampleGroups(store_up) ==
    /\ sync.pc = "create_sample_groups"
    /\ StoreStep("create_sample_groups", "assign_users_to_groups",
                 create_sample_groups(Session, groups_data), store_up)

AssignUsersToGroups(store_up) ==
    /\ sync.pc = "assign_users_to_groups"
    /\ StoreStep("assign_users_to_groups", "create_sample_applications",
                 assign_users_to_groups(Session), store_up)

CreateSampleApplications(store_up) ==
    /\ sync.pc = "create_sample_applications"
    /\ StoreStep("create_sample_applications", "assign_groups_to_apps",
                 create_sample_applications(Session, apps_data), store_up)

AssignGroupsToApps(store_up) ==
    /\ sync.pc = "assign_groups_to_apps"
    /\ StoreStep("assign_groups_to_apps", "create_sample_permissions",
                 assign_groups_to_apps(Session), store_up)

CreateSamplePermissions(store_up) ==
    /\ sync.pc = "create_sample_permissions"
    /\ StoreStep("create_sample_permissions", "assign_permissions_to_groups",
                 create_sample_permissions(Session, sample_permissions), store_up)

AssignPermissionsToGroups(store_up) ==
    /\ sync.pc = "assign_permissions_to_groups"
    /\ StoreStep("assign_permissions_to_groups", "summary",
                 assign_permissions_to_groups(Session), store_up)

\* the steps of a run in which every step succeeded
AllSteps ==
    <<"get_access_token", "get_users", "sync_users", "create_sample_groups",
      "assign_users_to_groups", "create_sample_applications",
      "assign_groups_to_apps", "create_sample_permissions",
      "assign_permissions_to_groups">>

Successful(log) == log = [i \in DOMAIN AllSteps |-> [step |-> AllSteps[i], ok |-> TRUE]]

\* "SYNC COMPLETED SUCCESSFULLY!", the summary, session.close()
Finish ==
    /\ sync.pc = "summary"
    /\ sync' = [sync EXCEPT !.pc = "done"]
    /\ hist' = [hist EXCEPT
                  !.after_success = IF Successful(hist.log) /\ @ = {} THEN {db} ELSE @,
                  !.successes = IF Successful(hist.log) THEN @ + 1 ELSE @]
    /\ UNCHANGED <<db, call, idp>>

SyncNext ==
    \/ \E configured \in BOOLEAN : RunSync(configured)
    \/ \E status \in {"200", "401", "raised"} : GetAccessToken(status)
    \/ \E status \in {"200", "401", "raised"} : GetUsers(status)
    \/ \E store_up \in BOOLEAN :
        \/ SyncUsers(store_up)
        \/ CreateSampleGroups(store_up)
        \/ AssignUsersToGroups(store_up)
        \/ CreateSampleApplications(store_up)
        \/ AssignGroupsToApps(store_up)
        \/ CreateSamplePermissions(store_up)
        \/ AssignPermissionsToGroups(store_up)
    \/ Finish

SyncSpec == SyncInit /\ [][SyncNext]_vars

\* C9: when a step of a sync run fails, the run halts at that step: the
\* failed step is the last one executed, and the store stays as it was
\* committed when the step failed.
C9_HaltsAtFailingStep ==
    \A i \in DOMAIN hist.log :
        ~hist.log[i].ok =>
            /\ i = Len(hist.log)
            /\ sync.pc = "halted"
            /\ db \in hist.at_failure

\* C10: a provider record whose external id matches a stored user adds no
\* user and leaves the stored user as it is, and a run in which every step
\* succeeded ends, after an earlier such run on the same provider records,
\* with the store as the earlier run left it.
C10_Idempotent ==
    /\ [](sync.pc = "done" /\ Successful(hist.log) => db \in hist.after_success)
    /\ [][sync.pc = "sync_users" =>
            /\ db.users \subseteq db'.users
            /\ \A i \in DOMAIN sync.auth0_users :
                 LET stored == {u \in db.users :
                                  u.idp_id = sync.auth0_users[i].user_id}
                 IN stored # {} =>
                      {u \in db'.users : u.idp_id = sync.auth0_users[i].user_id}
                          = stored]_vars

C10_Witness ==
    /\ sync.pc = "done"
    /\ hist.successes >= 2
    /\ Successful(hist.log)
    /\ hist.after_success = {db}
    /\ db # LegacyStore
    /\ \E u \in db.users : \E i \in DOMAIN idp.users :
         /\ idp.users[i].user_id = u.idp_id
         /\ idp.users[i].name # u.username
    /\ \E u \in db.users : \E i \in DOMAIN idp.users :
         /\ idp.users[i].user_id = u.idp_id
         /\ u \notin LegacyStore.users

\* C11: the command line reports what the HTTP access check reports: for the
\* same username and application on the same store, the same not-found
\* outcome, the same access decision and the same sorted list of
\* "<resource>: <action>" strings.
C11_CliSameAsHttp ==
    \A c, e \in Calls :
        (/\ call[c].pc = "done" /\ call[c].surface = "http"
         /\ call[e].pc = "done" /\ call[e].surface = "cli"
         /\ call[e].username = call[c].username
         /\ call[e].application = call[c].application) =>
            /\ (call[c].outcome.kind = "http_404") = (call[e].outcome.kind = "cli_error")
            /\ call[e].outcome.what = call[c].outcome.what
            /\ call[e].outcome.access = call[c].outcome.access
            /\ call[e].outcome.permissions = call[c].outcome.permissions

\* C12: permissions are deduplicated as Permission rows, not as strings:
\* when two distinct permissions with the same resource and action are both
\* reached, the answer holds their common string once for each of them
\* (twice for two).
C12_DuplicateStrings ==
    \A c \in Calls :
        Answered(c) =>
            LET R == Reached(db, U(c), A(c))
            IN \A p, q \in R :
                 (/\ p # q
                  /\ Row(db.permissions, p).name # Row(db.permissions, q).name
                  /\ Row(db.permissions, p).resource = Row(db.permissions, q).resource
                  /\ Row(db.permissions, p).action = Row(db.permissions, q).action) =>
                    /\ Occurrences(call[c].outcome.permissions,
                                   FormatApi(Row(db.permissions, p))) >= 2
                    /\ Occurrences(call[c].outcome.permissions,
                                   FormatApi(Row(db.permissions, p)))
                         = Cardinality({r \in R :
                              /\ Row(db.permissions, r).resource
                                    = Row(db.permissions, p).resource
                              /\ Row(db.permissions, r).action
                                    = Row(db.permissions, p).action})

C12_Witness ==
    \E c \in Calls :
        /\ Answered(c)
        /\ {1, 3} \subseteq Reached(db, U(c), A(c))
        /\ 3 \in user_permissions(db, U(c))
        /\ 1 \notin user_permissions(db, U(c))
        /\ Occurrences(call[c].outcome.permissions, s_Docs \o s_colon_space \o s_Read) = 2

\* C13: once assign_permissions_to_groups has committed, every group of the
\* store, sample group or not, holds exactly the permissions its name gives
\* it: all of them when the lower-cased name contains "admin", else those
\* whose name contains "Write" when it contains "editor", else those whose
\* name contains "Read"; nothing it held before outside that set remains.
C13_PermissionsByGroupName ==
    sync.pc = "summary" =>
        \A g \in db.groups :
            LET held == {p \in db.permissions : <<g.id, p.id>> \in db.group_permissions}
            IN /\ Contains(s_admin, Lower(g.name)) => held = db.permissions
               /\ (~Contains(s_admin, Lower(g.name)) /\ Contains(s_editor, Lower(g.name))) =>
                     held = {p \in db.permissions : Contains(s_Write, p.name)}
               /\ (~Contains(s_admin, Lower(g.name)) /\ ~Contains(s_editor, Lower(g.name))) =>
                     held = {p \in db.permissions : Contains(s_Read, p.name)}

\* the run started on the legacy store: "Guests" has lost "Docs:View", which
\* it held, and holds the "Read" permissions; "SysAdmin" holds them all
C13_Witness ==
    /\ sync.pc = "summary"
    /\ LegacyStore.groups \subseteq db.groups
    /\ LegacyStore.permissions \subseteq db.permissions
    /\ <<2, 1>> \in LegacyStore.group_permissions
    /\ <<2, 1>> \notin db.group_permissions
    /\ \E p \in db.permissions : <<2, p.id>> \in db.group_permissions
    /\ \E p \in db.permissions : p.name = s_Docs \o s_colon \o s_Write
    /\ \A p \in db.permissions : <<1, p.id>> \in db.group_permissions

====
